---- MODULE Spec2Model ----
(***************************************************************************)
(* Model of src/4app.py, the Hospital Analytics NLQ page.                  *)
(*                                                                         *)
(* The page is a script that the UI framework runs top to bottom on every  *)
(* user interaction.  One behaviour of the model is a sequence of script   *)
(* runs; inside a run the variable pc is the position of the script.       *)
(* Text is modelled as a sequence of characters, a character being a       *)
(* one-element name; "sz" stands for U+00DF (LATIN SMALL LETTER SHARP S),  *)
(* the character whose upper-case form is the two characters "SS".         *)
(***************************************************************************)
EXTENDS Naturals, Integers, Sequences, FiniteSets, TLC

VARIABLES
    pc,          \* position of the script inside the current run
    api_key,     \* value of the masked credential field          (line 26)
    user_query,  \* value of the question text area               (line 75)
    pressed,     \* st.button("Run Query") of this run            (line 77)
    bound,       \* names bound in the script namespace of this run
    response,    \* text returned by chain.run                    (line 85)
    sql_query,   \* the extracted statement                       (lines 91, 93)
    executed,    \* the sequence of strings handed to conn.execute (line 101)
    conn,        \* the executor's sqlite3 connection             (line 99)
    rows,        \* cursor.fetchall()                             (line 102)
    columns,     \* names taken from cursor.description           (line 103)
    page,        \* elements rendered on the page in this run
    log,         \* external operations attempted in this run, in order
    escaped      \* an exception left the Run Query handler

vars == <<pc, api_key, user_query, pressed, bound, response, sql_query,
          executed, conn, rows, columns, page, log, escaped>>

-----------------------------------------------------------------------------
(* Bounds of the model.                                                    *)

MaxTokens == 3

MaxRows == 2

-----------------------------------------------------------------------------
(* Text.                                                                   *)

Whitespace == {" ", "\n"}

SELECT == <<"S", "E", "L", "E", "C", "T">>

\* str.upper() of one character: a sequence, since the upper-case form of a
\* character may be longer than the character.
UpperChar(c) ==
    CASE c = "s" -> <<"S">>
      [] c = "e" -> <<"E">>
      [] c = "l" -> <<"L">>
      [] c = "c" -> <<"C">>
      [] c = "t" -> <<"T">>
      [] c = "sz" -> <<"S", "S">>
      [] OTHER -> <<c>>

RECURSIVE upper(_)
upper(s) ==
    IF s = <<>> THEN <<>> ELSE UpperChar(Head(s)) \o upper(Tail(s))

\* s[i:] for a 0-based index 0 <= i
SliceFrom(s, i) == SubSeq(s, i + 1, Len(s))

MatchesAt(s, sub, i) ==
    /\ i + Len(sub) <= Len(s)
    /\ SubSeq(s, i + 1, i + Len(sub)) = sub

\* str.find: the lowest 0-based index at which sub occurs in s, -1 if none
find(s, sub) ==
    IF \E i \in 0..Len(s) : MatchesAt(s, sub, i)
    THEN CHOOSE i \in 0..Len(s) :
            /\ MatchesAt(s, sub, i)
            /\ \A j \in 0..(i - 1) : ~MatchesAt(s, sub, j)
    ELSE -1

\* the operator "sub in s"
Contains(s, sub) == \E i \in 0..Len(s) : MatchesAt(s, sub, i)

RECURSIVE lstrip(_, _)
lstrip(s, chars) ==
    IF s # <<>> /\ Head(s) \in chars THEN lstrip(Tail(s), chars) ELSE s

RECURSIVE rstrip(_, _)
rstrip(s, chars) ==
    IF s # <<>> /\ s[Len(s)] \in chars
    THEN rstrip(SubSeq(s, 1, Len(s) - 1), chars)
    ELSE s

\* str.strip() with no argument
strip(s) == rstrip(lstrip(s, Whitespace), Whitespace)

\* lines 89-93
ExtractSql(resp) ==
    IF Contains(upper(resp), SELECT)
    THEN LET sql_start == find(upper(resp), SELECT)
         IN  rstrip(strip(SliceFrom(resp, sql_start)), {";"})
    ELSE strip(resp)

\* "not api_key" (line 28)
KeyMissing(key) == key = <<>>

\* the blank test without strip()
QuestionBlankNoStrip(q) == q = <<>>

\* "not user_query.strip()" (line 78)
QuestionBlank(q) == strip(q) = <<>>

-----------------------------------------------------------------------------
(* Inputs.                                                                 *)

Keys == {<<>>, <<" ">>, <<"k">>}

Questions == {<<>>, <<" ">>, <<"q">>}

Tokens ==
    { SELECT,
      <<"S", "e", "l", "E", "c", "t">>,
      <<"e", "l", "e", "c", "t">>,
      <<"sz">>, <<" ">>, <<";">>, <<"1">> }

RECURSIVE TextsOf(_)
TextsOf(n) ==
    IF n = 0 THEN {<<>>}
    ELSE LET shorter == TextsOf(n - 1)
         IN  shorter \cup {t \o w : t \in Tokens, w \in shorter}

\* the free-form texts the hosted model may return
Responses == TextsOf(MaxTokens)

ColumnLists == {<<"department">>, <<"department", "total">>}

\* a result set of n rows for the column list cols
RowsOf(n, cols) == [i \in 1..n |-> [j \in 1..Len(cols) |-> i]]

-----------------------------------------------------------------------------
(* Page elements.                                                          *)

Element(kind) == [kind |-> kind, data |-> <<>>, labels |-> <<>>]

\* st.code(sql_query, language="sql") (line 96)
Code(sql) == [kind |-> "code", data |-> sql, labels |-> <<>>]

\* st.dataframe(rows) (lines 109, 120): the rows are handed over without the
\* column names, so the table is labelled with the positions 0..M-1
\* (no columns at all for an empty list)
Dataframe(data) ==
    [kind |-> "table", data |-> data,
     labels |-> IF data = <<>> THEN <<>>
                ELSE [j \in 1..Len(data[1]) |-> ToString(j - 1)]]

\* the results block without its zero-rows test
ResultsBlockNoEmptyTest(rs) == Dataframe(rs)

\* "if rows: st.dataframe(rows) else: st.info(...)" (lines 108-111, 119-122)
ResultsBlock(rs) ==
    IF rs # <<>> THEN Dataframe(rs) ELSE Element("info_no_results")

Kinds(pg) == {pg[i].kind : i \in 1..Len(pg)}

Count(seq, x) == Cardinality({i \in 1..Len(seq) : seq[i] = x})

CountKind(pg, kind) == Cardinality({i \in 1..Len(pg) : pg[i].kind = kind})

InLog(e) == \E i \in 1..Len(log) : log[i] = e

-----------------------------------------------------------------------------
(* The script.                                                             *)

Init ==
    /\ pc = "idle"
    /\ api_key = <<>>
    /\ user_query = <<>>
    /\ pressed = FALSE
    /\ bound = {}
    /\ response = <<>>
    /\ sql_query = <<>>
    /\ executed = <<>>
    /\ conn = "none"
    /\ rows = <<>>
    /\ columns = <<>>
    /\ page = <<>>
    /\ log = <<>>
    /\ escaped = FALSE

\* st.stop(): the run ends here
Stop(pg) ==
    /\ page' = pg
    /\ pc' = "end"

\* the handler without its except clause: the exception leaves the handler
OuterExceptMissing(pg) ==
    /\ page' = pg
    /\ pc' = "end"
    /\ escaped' = TRUE

\* "except Exception as e: st.error(...)" of the handler (lines 123-124)
OuterExcept(pg) ==
    /\ page' = Append(pg, Element("error_query"))
    /\ pc' = "end"
    /\ escaped' = escaped

\* the inner except clause without conn.close()
InnerExceptNoClose ==
    /\ page' = Append(page, Element("error_sql"))
    /\ conn' = conn
    /\ pc' = "second"

\* "except Exception as ex: st.error(...); conn.close()" (lines 112-114)
InnerExcept ==
    /\ page' = Append(page, Element("error_sql"))
    /\ conn' = "closed"
    /\ pc' = "second"

\* A user interaction: the framework runs the script from the top with the
\* current widget values and a fresh namespace (lines 12-21).
ScriptRun ==
    /\ pc \in {"idle", "end"}
    /\ \E k \in Keys, q \in Questions, b \in BOOLEAN :
          /\ api_key' = k
          /\ user_query' = q
          /\ pressed' = b
    /\ bound' = {}
    /\ response' = <<>>
    /\ sql_query' = <<>>
    /\ executed' = <<>>
    /\ conn' = "none"
    /\ rows' = <<>>
    /\ columns' = <<>>
    /\ page' = <<Element("title"), Element("intro")>>
    /\ log' = <<>>
    /\ escaped' = FALSE
    /\ pc' = "gate"

\* lines 26-30
Gate ==
    /\ pc = "gate"
    /\ IF KeyMissing(api_key)
       THEN Stop(Append(page, Element("warning_key")))
       ELSE page' = page /\ pc' = "db"
    /\ UNCHANGED <<api_key, user_query, pressed, bound, response, sql_query,
                   executed, conn, rows, columns, log, escaped>>

\* lines 35-39, SQLDatabase.from_uri returns
OpenDatabase ==
    /\ pc = "db"
    /\ log' = Append(log, "db_open")
    /\ bound' = bound \cup {"db_path", "db"}
    /\ page' = Append(page, Element("success_db"))
    /\ pc' = "llm"
    /\ UNCHANGED <<api_key, user_query, pressed, response, sql_query,
                   executed, conn, rows, columns, escaped>>

\* lines 35-42, SQLDatabase.from_uri raises
OpenDatabaseFails ==
    /\ pc = "db"
    /\ log' = log \o <<"db_open", "db_open_failed">>
    /\ bound' = bound \cup {"db_path"}
    /\ Stop(Append(page, Element("error_db")))
    /\ UNCHANGED <<api_key, user_query, pressed, response, sql_query,
                   executed, conn, rows, columns, escaped>>

\* lines 47-49, ChatGroq(...) returns
InitModel ==
    /\ pc = "llm"
    /\ log' = Append(log, "llm_create")
    /\ bound' = bound \cup {"llm"}
    /\ page' = Append(page, Element("success_llm"))
    /\ pc' = "chain"
    /\ UNCHANGED <<api_key, user_query, pressed, response, sql_query,
                   executed, conn, rows, columns, escaped>>

\* lines 47-52, ChatGroq(...) raises
InitModelFails ==
    /\ pc = "llm"
    /\ log' = log \o <<"llm_create", "llm_create_failed">>
    /\ Stop(Append(page, Element("error_llm")))
    /\ UNCHANGED <<api_key, user_query, pressed, bound, response, sql_query,
                   executed, conn, rows, columns, escaped>>

\* lines 57-75: the prompt, the chain, the subheader and the text area
BuildChain ==
    /\ pc = "chain"
    /\ bound' = bound \cup {"prompt", "chain", "user_query"}
    /\ page' = Append(page, Element("subheader"))
    /\ pc' = "button"
    /\ UNCHANGED <<api_key, user_query, pressed, response, sql_query,
                   executed, conn, rows, columns, log, escaped>>

\* lines 77-81
RunQueryButton ==
    /\ pc = "button"
    /\ IF ~pressed
       THEN page' = page /\ pc' = "end"
       ELSE IF QuestionBlank(user_query)
            THEN page' = Append(page, Element("warning_question"))
                 /\ pc' = "end"
            ELSE page' = page /\ pc' = "translate"
    /\ UNCHANGED <<api_key, user_query, pressed, bound, response, sql_query,
                   executed, conn, rows, columns, log, escaped>>

\* line 85, chain.run returns a text
Translate ==
    /\ pc = "translate"
    /\ \E r \in Responses : response' = r
    /\ log' = log \o <<"model_call", "model_return">>
    /\ bound' = bound \cup {"response"}
    /\ pc' = "extract"
    /\ UNCHANGED <<api_key, user_query, pressed, sql_query, executed, conn,
                   rows, columns, page, escaped>>

\* line 85, chain.run raises
TranslateFails ==
    /\ pc = "translate"
    /\ log' = log \o <<"model_call", "model_call_failed">>
    /\ OuterExcept(page)
    /\ UNCHANGED <<api_key, user_query, pressed, bound, response, sql_query,
                   executed, conn, rows, columns>>

\* lines 89-96
Extract ==
    /\ pc = "extract"
    /\ sql_query' = ExtractSql(response)
    /\ bound' = bound \cup
                  (IF Contains(upper(response), SELECT)
                   THEN {"sql_start", "sql_query"} ELSE {"sql_query"})
    /\ page' = page \o <<Element("header_sql"), Code(sql_query')>>
    /\ pc' = "connect"
    /\ UNCHANGED <<api_key, user_query, pressed, response, executed, conn,
                   rows, columns, log, escaped>>

\* line 99, sqlite3.connect returns
Connect ==
    /\ pc = "connect"
    /\ log' = Append(log, "connect")
    /\ conn' = "open"
    /\ bound' = bound \cup {"conn"}
    /\ pc' = "execute"
    /\ UNCHANGED <<api_key, user_query, pressed, response, sql_query,
                   executed, rows, columns, page, escaped>>

\* line 99, sqlite3.connect raises
ConnectFails ==
    /\ pc = "connect"
    /\ log' = log \o <<"connect", "connect_failed">>
    /\ OuterExcept(page)
    /\ UNCHANGED <<api_key, user_query, pressed, bound, response, sql_query,
                   executed, conn, rows, columns>>

\* lines 101-111: the statement returns a result set
ExecuteQuery ==
    /\ pc = "execute"
    /\ executed' = Append(executed, sql_query)
    /\ log' = log \o <<"execute", "execute_ok">>
    /\ \E cols \in ColumnLists, n \in 0..MaxRows :
          /\ rows' = RowsOf(n, cols)
          /\ columns' = cols
    /\ bound' = bound \cup {"cursor", "rows", "columns"}
    /\ conn' = "closed"
    /\ page' = page \o <<Element("header_results"), ResultsBlock(rows')>>
    /\ pc' = "second"
    /\ UNCHANGED <<api_key, user_query, pressed, response, sql_query,
                   escaped>>

\* lines 101-103, 112-114: the statement runs but returns no result set
\* (cursor.description is None), so building the column list raises
ExecuteNoResultSet ==
    /\ pc = "execute"
    /\ executed' = Append(executed, sql_query)
    /\ log' = log \o <<"execute", "execute_ok", "columns_failed">>
    /\ rows' = <<>>
    /\ bound' = bound \cup {"cursor", "rows"}
    /\ InnerExcept
    /\ UNCHANGED <<api_key, user_query, pressed, response, sql_query,
                   columns, escaped>>

\* lines 101, 112-114: conn.execute raises
ExecuteFails ==
    /\ pc = "execute"
    /\ executed' = Append(executed, sql_query)
    /\ log' = log \o <<"execute", "execute_failed">>
    /\ InnerExcept
    /\ UNCHANGED <<api_key, user_query, pressed, bound, response, sql_query,
                   rows, columns, escaped>>

\* lines 117-124: the second results block; the name rows is unbound when
\* conn.execute raised, and the NameError goes to the handler's except
SecondResultsBlock ==
    /\ pc = "second"
    /\ IF "rows" \in bound
       THEN /\ page' = page \o <<Element("header_results"), ResultsBlock(rows)>>
            /\ pc' = "end"
            /\ escaped' = escaped
       ELSE OuterExcept(Append(page, Element("header_results")))
    /\ UNCHANGED <<api_key, user_query, pressed, bound, response, sql_query,
                   executed, conn, rows, columns, log>>

Next ==
    \/ ScriptRun
    \/ Gate
    \/ OpenDatabase
    \/ OpenDatabaseFails
    \/ InitModel
    \/ InitModelFails
    \/ BuildChain
    \/ RunQueryButton
    \/ Translate
    \/ TranslateFails
    \/ Extract
    \/ Connect
    \/ ConnectFails
    \/ ExecuteQuery
    \/ ExecuteNoResultSet
    \/ ExecuteFails
    \/ SecondResultsBlock

Spec == Init /\ [][Next]_vars

-----------------------------------------------------------------------------
(* Properties.                                                             *)

Blank(s) == \A i \in 1..Len(s) : s[i] \in Whitespace

\* c is the letter K in upper or lower case
SameLetter(c, K) == c = K \/ UpperChar(c) = <<K>>

\* the keyword, in any letter case, occurs in s at the 0-based index i
KeywordAt(s, i) ==
    /\ i + Len(SELECT) <= Len(s)
    /\ \A k \in 1..Len(SELECT) : SameLetter(s[i + k], SELECT[k])

HasKeyword(s) == \E i \in 0..Len(s) : KeywordAt(s, i)

FirstKeyword(s) ==
    CHOOSE i \in 0..Len(s) :
        /\ KeywordAt(s, i)
        /\ \A j \in 0..(i - 1) : ~KeywordAt(s, j)

Outcomes == {"table", "info_no_results", "error_sql", "error_query"}

Presentation == {"header_results", "table", "info_no_results"}

\* C1: in a run whose credential is empty or only whitespace, the warning is
\* shown and the run halts at the gate: no database open, no model client,
\* no model call and no SQL execution happen in that run.
C1_CredentialGate ==
    (Blank(api_key) /\ pc \notin {"idle", "gate"}) =>
        /\ pc = "end"
        /\ "warning_key" \in Kinds(page)
        /\ log = <<>>
        /\ executed = <<>>

\* C2: when the response contains SELECT in any letter case, the extracted
\* statement is the response from the first occurrence on, less whitespace
\* and semicolons at its end: it begins with the matched keyword and ends
\* neither in a semicolon nor in whitespace.
C2_ExtractWithKeyword ==
    ("sql_query" \in bound /\ HasKeyword(response)) =>
        LET rest == SliceFrom(response, FirstKeyword(response))
            n == Len(sql_query)
        IN  /\ n >= Len(SELECT)
            /\ n <= Len(rest)
            /\ SubSeq(rest, 1, n) = sql_query
            /\ \A i \in (n + 1)..Len(rest) : rest[i] \in Whitespace \cup {";"}
            /\ sql_query[n] \notin Whitespace \cup {";"}

\* C3: when the response contains no SELECT in any letter case, the
\* extracted statement is the whole response with leading and trailing
\* whitespace removed, and that string is what the executor is given.
C3_ExtractWithoutKeyword ==
    ("sql_query" \in bound /\ ~HasKeyword(response)) =>
        /\ sql_query = strip(response)
        /\ \A i \in 1..Len(executed) : executed[i] = strip(response)

\* C4: when the statement returned N > 0 rows of M columns, a table is
\* rendered and every rendered table has N rows and is labelled with the
\* M column names of the query, in order.
C4_TableHasQueryColumns ==
    (pc = "end" /\ InLog("execute_ok") /\ "columns" \in bound /\ rows # <<>>) =>
        /\ "table" \in Kinds(page)
        /\ \A i \in 1..Len(page) :
              page[i].kind = "table" =>
                  /\ Len(page[i].data) = Len(rows)
                  /\ \A r \in 1..Len(rows) :
                        Len(page[i].data[r]) = Len(columns)
                  /\ page[i].labels = columns

\* C5: when the statement ran and returned zero rows, no table is rendered
\* at any point of the action, and the action ends with the "no results"
\* message on the page.
C5_NoRowsNoTable ==
    (InLog("execute_ok") /\ rows = <<>>) =>
        /\ "table" \notin Kinds(page)
        /\ pc = "end" => "info_no_results" \in Kinds(page)

C5_Witness ==
    /\ pc = "end"
    /\ InLog("execute_ok")
    /\ "columns" \in bound
    /\ rows = <<>>
    /\ CountKind(page, "info_no_results") > 0

\* C6: when conn.execute raised, the error message is on the page and no
\* exception has left the Run Query handler, the one raised after the
\* failure branch included.
C6_FailureContained ==
    InLog("execute_failed") =>
        /\ "error_sql" \in Kinds(page)
        /\ ~escaped

C6_Witness ==
    /\ pc = "end"
    /\ InLog("execute_failed")
    /\ "rows" \notin bound
    /\ "error_query" \in Kinds(page)

\* C7: the failure of a stage keeps every later stage from running: no model
\* client or call after a failed database open, no extracted, displayed or
\* executed SQL after a failed model initialization or call, and no step of
\* result presentation after a failed execution.
C7_HaltOnFirstError ==
    /\ InLog("db_open_failed") =>
          ~InLog("llm_create") /\ ~InLog("model_call")
    /\ (InLog("llm_create_failed") \/ InLog("model_call_failed")) =>
          /\ "sql_query" \notin bound
          /\ "code" \notin Kinds(page)
          /\ executed = <<>>
    /\ InLog("execute_failed") =>
          \A i \in 1..Len(page) :
              page[i].kind = "error_sql" =>
                  \A j \in (i + 1)..Len(page) :
                      page[j].kind \notin Presentation

\* C8, as stated: a failed execution shows the error and ends the action
\* with the executor's connection still open.
C8_FailureLeavesConnectionOpen ==
    (pc = "end" /\ InLog("execute_failed")) =>
        /\ "error_sql" \in Kinds(page)
        /\ conn = "open"

\* C8, amended: a failed execution shows the error and closes the
\* executor's connection in the failure branch, so the action ends with the
\* connection released.
C8_FailureClosesConnection ==
    InLog("execute_failed") =>
        /\ "error_sql" \in Kinds(page)
        /\ conn = "closed"

C8_Witness ==
    /\ pc = "end"
    /\ InLog("execute_failed")
    /\ InLog("connect")
    /\ conn = "closed"

\* C9: a run makes at most one model call and at most one SQL execution,
\* the execution only after the model call returned; after a failure of
\* either, neither is attempted again; and a run without a press, or with a
\* blank question, makes neither.
C9_OnePassNoRetry ==
    /\ Count(log, "model_call") <= 1
    /\ Count(log, "execute") <= 1
    /\ Len(executed) = Count(log, "execute")
    /\ \A i \in 1..Len(log) :
          log[i] = "execute" => \E j \in 1..(i - 1) : log[j] = "model_return"
    /\ \A i \in 1..Len(log) :
          log[i] \in {"model_call_failed", "execute_failed"} =>
              \A j \in (i + 1)..Len(log) :
                  log[j] \notin {"model_call", "execute"}
    /\ (~pressed \/ Blank(user_query)) =>
          ~InLog("model_call") /\ ~InLog("execute")

C9_Witness ==
    /\ pc = "end"
    /\ pressed
    /\ Count(log, "model_call") = 1
    /\ Count(log, "execute") = 1

\* C10: an action that reached the model call ends with exactly one outcome
\* on the page, shown once: one table, one "no results" message or one
\* error message.
C10_SingleOutcome ==
    (pc = "end" /\ InLog("model_call")) =>
        Cardinality({i \in 1..Len(page) : page[i].kind \in Outcomes}) = 1

====
